---- MODULE Spec2Model ----
(***************************************************************************)
(* PR-Updater-Bot: the push-event handler PRBranchUpdateHandler.Handle of  *)
(* src/pull-updater.go (lines 94-197) and the label predicate hasAllLabels *)
(* (lines 68-87), as a state machine.                                      *)
(*                                                                         *)
(* One invocation of Handle is followed call by call: every outbound call  *)
(* to the platform (list, compare, update, comment) is one step, and the   *)
(* platform's answer to it is chosen from a small set.  Every call and its *)
(* answer is appended to the trace `calls`.                                *)
(*                                                                         *)
(* Strings whose letters matter (label names, which the code lower-cases)  *)
(* are sequences of one-letter strings; all other strings are TLA+ strings.*)
(***************************************************************************)
EXTENDS Integers, Sequences, FiniteSets, TLC

(***************************************************************************)
(* Bounds of the model.                                                    *)
(***************************************************************************)
MaxPRs == 2        \* pull requests in one listing
MaxBehind == 1     \* largest behindBy a comparison reports
MaxLabels == 2     \* labels in one list given to hasAllLabels
MaxLabelLen == 1   \* letters in one label name given to hasAllLabels

(***************************************************************************)
(* Label names.                                                            *)
(***************************************************************************)
Letters == {"a", "A", "b"}

SeqsUpTo(S, n) == UNION {[1..k -> S] : k \in 0..n}

LabelNames == SeqsUpTo(Letters, MaxLabelLen) \ {<<>>}

LabelLists == SeqsUpTo(LabelNames, MaxLabels)

\* strings.ToLower on one letter, then on a whole name
LowerLetter(c) == CASE c = "A" -> "a" [] c = "B" -> "b" [] OTHER -> c

ToLower(s) == [k \in 1..Len(s) |-> LowerLetter(s[k])]

(***************************************************************************)
(* hasAllLabels and contains, as the code computes them: only the pull     *)
(* request's label name is lower-cased, the configured label is compared   *)
(* as written.                                                             *)
(***************************************************************************)
contains(prLabels, label) ==
    \E k \in 1..Len(prLabels) : ToLower(prLabels[k]) = label

hasAllLabels(labels, prLabels) ==
    \A k \in 1..Len(labels) : contains(prLabels, labels[k])

(***************************************************************************)
(* The inputs of one delivery.                                             *)
(***************************************************************************)
la == <<"a">>
lA == <<"A">>

\* h.labels: no filter, a lower-case filter, a filter with a capital
ConfiguredLabels == {<<>>, <<la>>, <<lA>>}

\* h.preamble; Handle only copies it into the comment's body
Preambles == {"Auto-update:"}

\* the labels one listed pull request may carry: none, or one with a capital
PullRequestLabels == {<<>>, <<lA>>}

Branches == {"main"}

Refs == {"refs/heads/main", "refs/heads/dev", "main"}

\* installation.id of the event; 0 is what the getters give when it is absent
InstallationIDs == {0, 1}

MalformedPayload ==
    [wellFormed |-> FALSE, ref |-> "", defaultBranch |-> "", installation |-> 0]

Payloads ==
    {MalformedPayload} \cup
    [wellFormed : {TRUE}, ref : Refs, defaultBranch : Branches,
     installation : InstallationIDs]

\* the base ref one listed pull request may target
PullRequestBases == {"main", "dev"}

\* a listing: pull request k of the listing has number k
PullRequest(k, ls, b) == [number |-> k, labels |-> ls, base |-> b, head |-> "feature"]

Listings ==
    UNION {{[k \in 1..n |-> PullRequest(k, f[k], g[k])] :
                f \in [1..n -> PullRequestLabels], g \in [1..n -> PullRequestBases]}
           : n \in 0..MaxPRs}

(***************************************************************************)
(* Errors.                                                                 *)
(***************************************************************************)
NoError == "nil"
NotReturned == "none"
ErrDecode == "failed to parse push event payload"
ErrClient == "failed to create installation client"
ErrList == "list failed"
ErrCompare == "compare failed"
ErrComment == "comment failed"
ErrUpdate == "merge conflict"
ErrCanceled == "context canceled"
ScheduledMessage == "job scheduled on GitHub side; try again later"

\* what UpdateBranch may answer: the error and the message of the response
\* (the message of a nil response reads as "")
UpdateResponses ==
    { [err |-> NoError, msg |-> "updated"],
      [err |-> ScheduledMessage, msg |-> ""],
      [err |-> ScheduledMessage, msg |-> "scheduled"],
      [err |-> ErrUpdate, msg |-> ""] }

\* what CompareCommits may answer: an error with a nil comparison, whose
\* GetBehindBy() is 0, or a comparison
CompareResponses ==
    {[err |-> ErrCompare, behindBy |-> 0]} \cup
    [err : {NoError}, behindBy : 0..MaxBehind]

VARIABLES
    labels,          \* h.labels
    preamble,        \* h.preamble
    pc,              \* where Handle stands
    pushEvent,       \* the decoded payload
    clientFor,       \* the installation clients asked for: the id and the answer
    pullRequests,    \* the listing
    idx,             \* position of the range loop in the listing
    updateErr,       \* err of the UpdateBranch call
    updateMsg,       \* updateResponse.GetMessage()
    calls,           \* the outbound calls so far, with their answers
    ret,             \* what Handle returned
    configLabels,    \* TestHasAllLabels: the configured labels
    prLabels,        \* TestHasAllLabels: the pull request's labels
    doesHaveLabels,  \* TestHasAllLabels: the result, "none" before the call
    delivery,        \* 1 for the first delivery of the push event, 2 for the second
    caughtUp         \* the numbers whose head an earlier delivery's update brought
                     \* up to date: the platform's behindBy for them is 0

vars == <<labels, preamble, pc, pushEvent, clientFor, pullRequests, idx,
          updateErr, updateMsg, calls, ret, configLabels, prLabels, doesHaveLabels,
          delivery, caughtUp>>

handlerVars == <<labels, preamble, pc, pushEvent, clientFor, pullRequests, idx,
                 updateErr, updateMsg, calls, ret>>

testVars == <<configLabels, prLabels, doesHaveLabels>>

deliveryVars == <<delivery, caughtUp>>

\* the payload of this delivery: a second delivery carries the same push event
DeliveredPayloads == IF delivery = 1 THEN Payloads ELSE {pushEvent}

\* what the comparison for pull request n may answer: behindBy is 0 once an
\* earlier delivery's update brought the head up to date
ComparisonOf(n) ==
    IF n \in caughtUp
    THEN {r \in CompareResponses : r.behindBy = 0}
    ELSE CompareResponses

\* ctx is done: the last call failed with the context's error.  A context that
\* is done stays done, so every later call of the invocation fails the same way
ContextDone == Len(calls) > 0 /\ calls[Len(calls)].err = ErrCanceled

\* the answers of a call that is given ctx: the call's own answers or, when
\* ctx is cancelled before or during the call, the cancellation answer
UnderContext(answers, canceled) ==
    IF ContextDone THEN {canceled} ELSE answers \cup {canceled}

\* a call cut short by the cancellation: a nil comparison, a nil update response
CanceledComparison == [err |-> ErrCanceled, behindBy |-> 0]

CanceledUpdate == [err |-> ErrCanceled, msg |-> ""]

\* one outbound call: the operation, the pull request number it is for (0 for
\* the listing), the base ref compared against, the comment's body, and the
\* answer: the error, the behindBy of the comparison, the message of the update
Call(op, pr, base, body, err, behindBy, msg) ==
    [op |-> op, pr |-> pr, base |-> base, body |-> body, err |-> err,
     behindBy |-> behindBy, msg |-> msg]

(***************************************************************************)
(* Pieces of Handle.                                                       *)
(***************************************************************************)
GetInstallationIDFromEvent(event) == event.installation

\* a plausible slip: the error of NewInstallationClient is dropped
ClientErrorDropped(err) == FALSE

\* line 109: the installation client could not be obtained
ClientFailed(err) == err # NoError

\* a plausible slip: the bare branch name is taken for the ref as well
BareBranchNameAccepted(ref, defaultBranch) ==
    ref = "refs/heads/" \o defaultBranch \/ ref = defaultBranch

\* line 120: the push was to the default branch
IsDefaultBranchPush(ref, defaultBranch) == ref = "refs/heads/" \o defaultBranch

\* a plausible slip: a pull request without labels is passed over even when
\* no label is required
UnlabelledSkipped(ls, prLs) ==
    Len(prLs) > 0 /\ (Len(ls) > 0 => hasAllLabels(ls, prLs))

\* a plausible slip: the result of the label check is logged but not acted on
LabelGateIgnored(ls, prLs) == TRUE

\* lines 143-153: the label gate
PassesLabelGate(ls, prLs) == IF Len(ls) > 0 THEN hasAllLabels(ls, prLs) ELSE TRUE

\* a plausible slip: the comparison is logged but every pull request is updated
AlwaysBehind(behindBy) == TRUE

\* a plausible slip: >= 0 for >= 1
BehindByZeroCounts(behindBy) == behindBy >= 0

\* line 161: the pull request is behind the default branch
IsBehind(behindBy) == behindBy >= 1

\* line 167: the update was scheduled on the platform's side
IsScheduled(err) == err = ScheduledMessage

\* a plausible slip: the preamble is left out of the comment
PreambleLeftOut(err, pre, msg) ==
    IF err = ScheduledMessage
    THEN msg
    ELSE "Failed to update pull request. Error: " \o err

\* lines 171 and 181: the body of the comment
CommentBody(err, pre, msg) ==
    IF IsScheduled(err)
    THEN pre \o "\n\n" \o msg
    ELSE "Failed to update pull request. Error: " \o err

Return(e) == pc' = "done" /\ ret' = e

\* a plausible slip: the loop does not advance
SamePullRequestAgain == pc' = "loop" /\ idx' = idx /\ UNCHANGED ret

NextPullRequest == pc' = "loop" /\ idx' = idx + 1 /\ UNCHANGED ret

(***************************************************************************)
(* Handle, lines 94-122: decode, installation client, default-branch gate. *)
(***************************************************************************)
HandleStart ==
    /\ pc = "start"
    /\ \E p \in DeliveredPayloads, cerr \in {NoError, ErrClient} :
        /\ pushEvent' = p
        /\ IF ~p.wellFormed
           THEN Return(ErrDecode) /\ UNCHANGED clientFor
           ELSE /\ clientFor' = clientFor \cup
                                  {[id |-> GetInstallationIDFromEvent(p), err |-> cerr]}
                /\ IF ClientFailed(cerr)
                   THEN Return(cerr)
                   ELSE IF ~IsDefaultBranchPush(p.ref, p.defaultBranch)
                        THEN Return(NoError)
                        ELSE pc' = "list" /\ UNCHANGED ret
    /\ UNCHANGED <<labels, preamble, pullRequests, idx, updateErr, updateMsg, calls>>
    /\ UNCHANGED testVars
    /\ UNCHANGED deliveryVars

(***************************************************************************)
(* A plausible slip: the error of the listing is dropped, as the error of  *)
(* the comparison is, and the nil listing is ranged over.                  *)
(***************************************************************************)
ListErrorDropped ==
    /\ pc = "list"
    /\ \E err \in UnderContext({NoError, ErrList}, ErrCanceled), l \in Listings :
        /\ calls' = Append(calls, Call("list", 0, "", "", err, 0, ""))
        /\ pullRequests' = IF err # NoError THEN <<>> ELSE l
        /\ idx' = 1
        /\ pc' = "loop"
        /\ UNCHANGED ret
    /\ UNCHANGED <<labels, preamble, pushEvent, clientFor, updateErr, updateMsg>>
    /\ UNCHANGED testVars
    /\ UNCHANGED deliveryVars

(***************************************************************************)
(* Lines 124-132: list the open pull requests.                             *)
(***************************************************************************)
ListPullRequests ==
    /\ pc = "list"
    /\ \E err \in UnderContext({NoError, ErrList}, ErrCanceled), l \in Listings :
        /\ calls' = Append(calls, Call("list", 0, "", "", err, 0, ""))
        /\ IF err # NoError
           THEN Return(err) /\ UNCHANGED <<pullRequests, idx>>
           ELSE pullRequests' = l /\ idx' = 1 /\ pc' = "loop" /\ UNCHANGED ret
    /\ UNCHANGED <<labels, preamble, pushEvent, clientFor, updateErr, updateMsg>>
    /\ UNCHANGED testVars
    /\ UNCHANGED deliveryVars

(***************************************************************************)
(* A plausible slip: the loop is written with an index that the `continue` *)
(* of the label gate does not advance.                                     *)
(***************************************************************************)
ContinueWithoutAdvance ==
    /\ pc = "loop"
    /\ IF idx > Len(pullRequests)
       THEN Return(NoError) /\ UNCHANGED idx
       ELSE IF PassesLabelGate(labels, pullRequests[idx].labels)
            THEN pc' = "compare" /\ UNCHANGED <<idx, ret>>
            ELSE UNCHANGED <<pc, idx, ret>>
    /\ UNCHANGED <<labels, preamble, pushEvent, clientFor, pullRequests,
                   updateErr, updateMsg, calls>>
    /\ UNCHANGED testVars
    /\ UNCHANGED deliveryVars

(***************************************************************************)
(* Lines 135-153 and 196: the head of the range loop and the label gate.   *)
(***************************************************************************)
LoopHead ==
    /\ pc = "loop"
    /\ IF idx > Len(pullRequests)
       THEN Return(NoError) /\ UNCHANGED idx
       ELSE IF PassesLabelGate(labels, pullRequests[idx].labels)
            THEN pc' = "compare" /\ UNCHANGED <<idx, ret>>
            ELSE NextPullRequest
    /\ UNCHANGED <<labels, preamble, pushEvent, clientFor, pullRequests,
                   updateErr, updateMsg, calls>>
    /\ UNCHANGED testVars
    /\ UNCHANGED deliveryVars

(***************************************************************************)
(* A plausible slip: the up-to-date branch of the comparison reports on    *)
(* the pull request with a comment instead of a log line.                  *)
(***************************************************************************)
UpToDateCommented ==
    /\ pc = "compare"
    /\ \E r \in UnderContext(ComparisonOf(pullRequests[idx].number),
                            CanceledComparison) :
        /\ calls' = Append(calls,
              Call("compare", pullRequests[idx].number, pullRequests[idx].base, "",
                   r.err, r.behindBy, ""))
        /\ IF IsBehind(r.behindBy)
           THEN pc' = "update" /\ UNCHANGED <<idx, ret>>
           ELSE pc' = "comment" /\ UNCHANGED <<idx, ret>>
    /\ UNCHANGED <<labels, preamble, pushEvent, clientFor, pullRequests,
                   updateErr, updateMsg>>
    /\ UNCHANGED testVars
    /\ UNCHANGED deliveryVars

(***************************************************************************)
(* Lines 155-161 and 192-194: compare base and head; the error of the call *)
(* is dropped and only GetBehindBy() of the comparison is read.            *)
(***************************************************************************)
CompareCommits ==
    /\ pc = "compare"
    /\ \E r \in UnderContext(ComparisonOf(pullRequests[idx].number),
                            CanceledComparison) :
        /\ calls' = Append(calls,
              Call("compare", pullRequests[idx].number, pullRequests[idx].base, "",
                   r.err, r.behindBy, ""))
        /\ IF IsBehind(r.behindBy)
           THEN pc' = "update" /\ UNCHANGED <<idx, ret>>
           ELSE NextPullRequest
    /\ UNCHANGED <<labels, preamble, pushEvent, clientFor, pullRequests,
                   updateErr, updateMsg>>
    /\ UNCHANGED testVars
    /\ UNCHANGED deliveryVars

(***************************************************************************)
(* A plausible slip: the outcome is commented whether or not the update    *)
(* succeeded.                                                              *)
(***************************************************************************)
UpdateBranchAlwaysCommented ==
    /\ pc = "update"
    /\ \E r \in UnderContext(UpdateResponses, CanceledUpdate) :
        /\ calls' = Append(calls,
              Call("update", pullRequests[idx].number, "", "", r.err, 0, r.msg))
        /\ updateErr' = r.err
        /\ updateMsg' = r.msg
        /\ pc' = "comment"
        /\ UNCHANGED <<idx, ret>>
    /\ UNCHANGED <<labels, preamble, pushEvent, clientFor, pullRequests>>
    /\ UNCHANGED testVars
    /\ UNCHANGED deliveryVars

(***************************************************************************)
(* A plausible slip: a scheduled update is asked for again at once instead *)
(* of being commented.                                                     *)
(***************************************************************************)
UpdateBranchRetried ==
    /\ pc = "update"
    /\ \E r \in UnderContext(UpdateResponses, CanceledUpdate) :
        /\ calls' = Append(calls,
              Call("update", pullRequests[idx].number, "", "", r.err, 0, r.msg))
        /\ updateErr' = r.err
        /\ updateMsg' = r.msg
        /\ IF r.err = ScheduledMessage
           THEN UNCHANGED <<pc, idx, ret>>
           ELSE IF r.err # NoError
                THEN pc' = "comment" /\ UNCHANGED <<idx, ret>>
                ELSE pc' = "loop" /\ idx' = idx + 1 /\ UNCHANGED ret
    /\ UNCHANGED <<labels, preamble, pushEvent, clientFor, pullRequests>>
    /\ UNCHANGED testVars
    /\ UNCHANGED deliveryVars

(***************************************************************************)
(* Lines 164-165 and 191: request the branch update.                       *)
(***************************************************************************)
UpdateBranch ==
    /\ pc = "update"
    /\ \E r \in UnderContext(UpdateResponses, CanceledUpdate) :
        /\ calls' = Append(calls,
              Call("update", pullRequests[idx].number, "", "", r.err, 0, r.msg))
        /\ updateErr' = r.err
        /\ updateMsg' = r.msg
        /\ IF r.err # NoError
           THEN pc' = "comment" /\ UNCHANGED <<idx, ret>>
           ELSE NextPullRequest
    /\ UNCHANGED <<labels, preamble, pushEvent, clientFor, pullRequests>>
    /\ UNCHANGED testVars
    /\ UNCHANGED deliveryVars

(***************************************************************************)
(* A plausible slip: a failed comment is logged and the loop goes on, as   *)
(* the pull_request-event variant of the handler does.                     *)
(***************************************************************************)
CommentErrorLogged ==
    /\ pc = "comment"
    /\ \E err \in UnderContext({NoError, ErrComment}, ErrCanceled) :
        /\ calls' = Append(calls,
              Call("comment", pullRequests[idx].number, "",
                   CommentBody(updateErr, preamble, updateMsg), err, 0, ""))
        /\ pc' = "loop"
        /\ idx' = idx + 1
        /\ UNCHANGED ret
    /\ UNCHANGED <<labels, preamble, pushEvent, clientFor, pullRequests,
                   updateErr, updateMsg>>
    /\ UNCHANGED testVars
    /\ UNCHANGED deliveryVars

(***************************************************************************)
(* Lines 166-190: comment on the pull request after a failed update.  In   *)
(* both branches only a failed comment returns; after a posted comment the *)
(* loop goes on.                                                           *)
(***************************************************************************)
CreateComment ==
    /\ pc = "comment"
    /\ \E err \in UnderContext({NoError, ErrComment}, ErrCanceled) :
        /\ calls' = Append(calls,
              Call("comment", pullRequests[idx].number, "",
                   CommentBody(updateErr, preamble, updateMsg), err, 0, ""))
        /\ IF err # NoError
           THEN Return(err) /\ UNCHANGED idx
           ELSE NextPullRequest
    /\ UNCHANGED <<labels, preamble, pushEvent, clientFor, pullRequests,
                   updateErr, updateMsg>>
    /\ UNCHANGED testVars
    /\ UNCHANGED deliveryVars

(***************************************************************************)
(* The handler as main constructs it (lines 228-232), before a delivery.   *)
(***************************************************************************)
Init ==
    /\ labels \in ConfiguredLabels
    /\ preamble \in Preambles
    /\ pc = "start"
    /\ pushEvent = MalformedPayload
    /\ clientFor = {}
    /\ pullRequests = <<>>
    /\ idx = 0
    /\ updateErr = NoError
    /\ updateMsg = ""
    /\ calls = <<>>
    /\ ret = NotReturned
    /\ configLabels = <<>>
    /\ prLabels = <<>>
    /\ doesHaveLabels = "none"
    /\ delivery = 1
    /\ caughtUp = {}

Next ==
    \/ HandleStart
    \/ ListPullRequests
    \/ LoopHead
    \/ CompareCommits
    \/ UpdateBranch
    \/ CreateComment

Spec == Init /\ [][Next]_vars

(***************************************************************************)
(* Handle runs on the goroutine of its delivery and is never suspended for *)
(* good: a step that can be taken is taken, and an outbound call that was  *)
(* issued returns.                                                         *)
(***************************************************************************)
SpecLive == Init /\ [][Next]_vars /\ WF_vars(Next)

(***************************************************************************)
(* The platform delivers the same push event a second time after Handle    *)
(* has returned: Handle starts afresh, all its locals are new; what is     *)
(* kept is on the platform's side.  The pull requests whose update call    *)
(* succeeded in the first delivery are up to date now; the listing of the  *)
(* second delivery is whatever the platform returns then.                  *)
(***************************************************************************)
Redeliver ==
    /\ pc = "done"
    /\ delivery = 1
    /\ delivery' = 2
    /\ caughtUp' = {calls[j].pr : j \in {k \in 1..Len(calls) :
                        calls[k].op = "update" /\ calls[k].err = NoError}}
    /\ pc' = "start"
    /\ clientFor' = {}
    /\ pullRequests' = <<>>
    /\ idx' = 0
    /\ updateErr' = NoError
    /\ updateMsg' = ""
    /\ calls' = <<>>
    /\ ret' = NotReturned
    /\ UNCHANGED <<labels, preamble, pushEvent>>
    /\ UNCHANGED testVars

NextRedelivery ==
    \/ Next
    \/ Redeliver

SpecRedelivery == Init /\ [][NextRedelivery]_vars

(***************************************************************************)
(* hasAllLabels on its own, as TestHasAllLabels calls it: the two lists    *)
(* are drawn from all label lists within the bounds.                       *)
(***************************************************************************)
InitLabels ==
    /\ labels = <<>>
    /\ preamble = ""
    /\ pc = "test"
    /\ pushEvent = MalformedPayload
    /\ clientFor = {}
    /\ pullRequests = <<>>
    /\ idx = 0
    /\ updateErr = NoError
    /\ updateMsg = ""
    /\ calls = <<>>
    /\ ret = NotReturned
    /\ configLabels \in LabelLists
    /\ prLabels \in LabelLists
    /\ doesHaveLabels = "none"
    /\ delivery = 1
    /\ caughtUp = {}

CallHasAllLabels ==
    /\ pc = "test"
    /\ doesHaveLabels = "none"
    /\ doesHaveLabels' = IF hasAllLabels(configLabels, prLabels) THEN "true" ELSE "false"
    /\ UNCHANGED <<configLabels, prLabels>>
    /\ UNCHANGED handlerVars
    /\ UNCHANGED deliveryVars

NextLabels == CallHasAllLabels

SpecLabels == InitLabels /\ [][NextLabels]_vars

(***************************************************************************)
(* Reading the trace.                                                      *)
(***************************************************************************)
CallsOf(op, n) == {j \in 1..Len(calls) : calls[j].op = op /\ calls[j].pr = n}

\* no pull request number has two calls of this operation
AtMostOnePerPullRequest(op) ==
    \A j \in 1..Len(calls) : \A m \in (j + 1)..Len(calls) :
        ~(calls[j].op = op /\ calls[m].op = op /\ calls[j].pr = calls[m].pr)

\* the call at position j is the last one so far
IsLastCall(j) == j = Len(calls)

\* Handle has not returned an error
NoErrorReturned == ret \in {NotReturned, NoError}

\* a label list carries a required label, letter case ignored on both sides
CarriesLabel(prLs, required) ==
    \E k \in 1..Len(prLs) : ToLower(prLs[k]) = ToLower(required)

CarriesAllLabels(ls, prLs) == \A k \in 1..Len(ls) : CarriesLabel(prLs, ls[k])

\* a label list has a label spelled exactly as the required one
HasLabelAsSpelled(prLs, required) == \E k \in 1..Len(prLs) : prLs[k] = required

C2_Original ==
    (pushEvent.wellFormed /\ pushEvent.ref # "refs/heads/" \o pushEvent.defaultBranch)
    => /\ calls = <<>>
       /\ pc = "done" => ret = NoError

(***************************************************************************)
(* C2 as amended: for such a push Handle issues no list, compare, update   *)
(* or comment call, and it returns nil unless obtaining the installation   *)
(* client failed, in which case it returns that error.                     *)
(***************************************************************************)
C2_NoCallsOffDefaultBranch ==
    (pushEvent.wellFormed /\ pushEvent.ref # "refs/heads/" \o pushEvent.defaultBranch)
    => /\ calls = <<>>
       /\ pc = "done"
       /\ ret \in {NoError, ErrClient}

\* a push to refs/heads/dev was handled: nothing called, nil returned
C2_Witness ==
    /\ pushEvent.wellFormed
    /\ pushEvent.ref = "refs/heads/dev"
    /\ pushEvent.defaultBranch = "main"
    /\ pc = "done"
    /\ ret = NoError
    /\ calls = <<>>

(***************************************************************************)
(* C3: a pull request whose comparison reports behindBy = 0 gets no update *)
(* call and no comment call, and Handle goes on: the loop is past that     *)
(* pull request without an error returned, and the next call, if any, is   *)
(* for a later pull request.                                               *)
(***************************************************************************)
C3_UpToDateUntouched ==
    \A j \in 1..Len(calls) :
        (calls[j].op = "compare" /\ calls[j].err = NoError /\ calls[j].behindBy = 0)
        => /\ CallsOf("update", calls[j].pr) = {}
           /\ CallsOf("comment", calls[j].pr) = {}
           /\ IF IsLastCall(j)
              THEN idx > calls[j].pr /\ NoErrorReturned
              ELSE calls[j + 1].pr > calls[j].pr

\* pull request 1 was reported up to date and pull request 2 was compared next
C3_Witness ==
    /\ \E j \in CallsOf("compare", 1) :
          /\ calls[j].err = NoError
          /\ calls[j].behindBy = 0
          /\ j < Len(calls)
          /\ calls[j + 1].op = "compare"
          /\ calls[j + 1].pr = 2
    /\ CallsOf("update", 1) = {}

(***************************************************************************)
(* C4: with a non-empty required-label list, a pull request that lacks a   *)
(* required label (letter case ignored) gets no compare, update or comment *)
(* call, and while the loop stands at it Handle is at the loop head only:  *)
(* it neither calls nor returns there, it goes on to the next one.         *)
(***************************************************************************)
C4_LabelGateBeforeCompare ==
    Len(labels) > 0 =>
        \A n \in 1..Len(pullRequests) :
            ~CarriesAllLabels(labels, pullRequests[n].labels)
            => /\ \A j \in 1..Len(calls) : calls[j].pr # n
               /\ idx = n => pc = "loop"

\* pull request 1 lacks the required label and was passed over,
\* pull request 2 carries it and was compared
C4_Witness ==
    /\ Len(labels) > 0
    /\ Len(pullRequests) = 2
    /\ ~CarriesAllLabels(labels, pullRequests[1].labels)
    /\ \A j \in 1..Len(calls) : calls[j].pr # 1
    /\ CallsOf("compare", 2) # {}

(***************************************************************************)
(* C5 (as stated, refuted by the code): hasAllLabels returns true if and   *)
(* only if every required label equals, letter case ignored on both sides, *)
(* the name of one of the pull request's labels.                           *)
(***************************************************************************)
C5_CaseInsensitive ==
    doesHaveLabels # "none"
    => (doesHaveLabels = "true" <=> CarriesAllLabels(configLabels, prLabels))

(***************************************************************************)
(* C6 (as stated, refuted by the code): hasAllLabels returns true whenever *)
(* every configured label is spelled exactly as one of the pull request's  *)
(* labels, capitals included and extra labels allowed; and it returns      *)
(* false whenever some configured label is, letter case ignored, the name  *)
(* of none of the pull request's labels.                                   *)
(***************************************************************************)
C6_AsTested ==
    doesHaveLabels # "none"
    => /\ (\A k \in 1..Len(configLabels) : HasLabelAsSpelled(prLabels, configLabels[k]))
          => doesHaveLabels = "true"
       /\ (\E k \in 1..Len(configLabels) : ~CarriesLabel(prLabels, configLabels[k]))
          => doesHaveLabels = "false"

(***************************************************************************)
(* C7: an update call that fails with the scheduled-retry message is       *)
(* followed at once by one comment on the same pull request whose body is  *)
(* the preamble, a blank line and the returned message; that pull request  *)
(* gets no second comment; and once the comment is posted Handle goes on   *)
(* to the next pull request without an error returned for this one.        *)
(***************************************************************************)
C7_ScheduledUpdateCommented ==
    /\ AtMostOnePerPullRequest("comment")
    /\ \A j \in 1..Len(calls) :
          (calls[j].op = "update" /\ calls[j].err = ScheduledMessage)
          => IF IsLastCall(j)
             THEN pc = "comment"
             ELSE /\ calls[j + 1].op = "comment"
                  /\ calls[j + 1].pr = calls[j].pr
                  /\ calls[j + 1].body = preamble \o "\n\n" \o calls[j].msg
                  /\ calls[j + 1].err = NoError
                     => IF IsLastCall(j + 1)
                        THEN idx > calls[j].pr /\ NoErrorReturned
                        ELSE calls[j + 2].pr > calls[j].pr

\* the update of pull request 1 was scheduled, the comment was posted with the
\* preamble and the message, pull request 2 was handled and Handle returned nil
C7_Witness ==
    /\ pc = "done"
    /\ ret = NoError
    /\ preamble = "Auto-update:"
    /\ \E j \in CallsOf("update", 1) :
          /\ calls[j].err = ScheduledMessage
          /\ calls[j].msg = "scheduled"
          /\ calls[j + 1].op = "comment"
          /\ calls[j + 1].body = "Auto-update:\n\nscheduled"
    /\ CallsOf("compare", 2) # {}

(***************************************************************************)
(* C8 (as stated, refuted by the code): an update call that fails with any *)
(* other error is followed by a comment holding the error text, and Handle *)
(* returns a non-nil error: the update error if the comment was posted,    *)
(* the comment error if it was not.                                        *)
(***************************************************************************)
C8_UpdateFailureReturned ==
    \A j \in 1..Len(calls) :
        (calls[j].op = "update" /\ calls[j].err \notin {NoError, ScheduledMessage})
        => /\ IF IsLastCall(j)
              THEN pc = "comment"
              ELSE /\ calls[j + 1].op = "comment"
                   /\ calls[j + 1].pr = calls[j].pr
                   /\ calls[j + 1].body =
                          "Failed to update pull request. Error: " \o calls[j].err
           /\ pc = "done"
              => ret = IF calls[j + 1].err = NoError
                       THEN calls[j].err
                       ELSE calls[j + 1].err

(***************************************************************************)
(* C9 (as stated, refuted by the code): after an update call failed with   *)
(* an error other than the scheduled-retry message, no call is issued for  *)
(* any pull request later in the listing.                                  *)
(***************************************************************************)
C9_AbortAfterUpdateFailure ==
    \A j \in 1..Len(calls) :
        (calls[j].op = "update" /\ calls[j].err \notin {NoError, ScheduledMessage})
        => \A m \in (j + 1)..Len(calls) : calls[m].pr <= calls[j].pr

(***************************************************************************)
(* C10 (as stated, refuted by the code): a compare call that returns an    *)
(* error is the last call of the invocation, and Handle returns a non-nil  *)
(* error.                                                                  *)
(***************************************************************************)
C10_CompareFailureFatal ==
    \A j \in 1..Len(calls) :
        (calls[j].op = "compare" /\ calls[j].err # NoError)
        => /\ IsLastCall(j)
           /\ pc = "done" => ret # NoError

(***************************************************************************)
(* C11 (as stated, refuted by the code): an update-branch call is issued   *)
(* only for a pull request whose base ref is the repository's default      *)
(* branch.                                                                 *)
(***************************************************************************)
C11_OnlyDefaultBranchTargets ==
    \A j \in 1..Len(calls) :
        calls[j].op = "update"
        => pullRequests[calls[j].pr].base = pushEvent.defaultBranch

(***************************************************************************)
(* C12: when the comment for a scheduled update fails, that comment is the *)
(* last call of the invocation and Handle has returned the comment's       *)
(* error.                                                                  *)
(***************************************************************************)
C12_ScheduledCommentFailureFatal ==
    \A j \in 1..Len(calls) :
        ( /\ calls[j].op = "comment"
          /\ calls[j].err # NoError
          /\ calls[j - 1].op = "update"
          /\ calls[j - 1].err = ScheduledMessage )
        => /\ IsLastCall(j)
           /\ pc = "done"
           /\ ret = calls[j].err

\* two pull requests listed; the update of the first was scheduled, its comment
\* failed, and Handle returned that error without a call for the second
C12_Witness ==
    /\ Len(pullRequests) = 2
    /\ pc = "done"
    /\ ret = ErrComment
    /\ \E j \in CallsOf("update", 1) : calls[j].err = ScheduledMessage
    /\ \E j \in CallsOf("comment", 1) : calls[j].err = ErrComment
    /\ \A j \in 1..Len(calls) : calls[j].pr # 2

(***************************************************************************)
(* C13: a pull request whose update call succeeded gets no comment; and    *)
(* when Handle has returned from an invocation whose update calls (there   *)
(* is at least one) all succeeded, no comment call was issued and the      *)
(* return value is nil.                                                    *)
(***************************************************************************)
C13_NoCommentOnSuccess ==
    /\ \A j \in 1..Len(calls) :
          (calls[j].op = "update" /\ calls[j].err = NoError)
          => \A m \in 1..Len(calls) :
                ~(calls[m].op = "comment" /\ calls[m].pr = calls[j].pr)
    /\ ( /\ pc = "done"
         /\ \E j \in 1..Len(calls) : calls[j].op = "update"
         /\ \A j \in 1..Len(calls) : calls[j].op = "update" => calls[j].err = NoError )
       => /\ \A m \in 1..Len(calls) : calls[m].op # "comment"
          /\ ret = NoError

\* pull request 1 up to date and untouched, pull request 2 behind and updated
\* with success, no comment, nil returned
C13_Witness ==
    /\ pc = "done"
    /\ ret = NoError
    /\ \E j \in CallsOf("compare", 1) : calls[j].err = NoError /\ calls[j].behindBy = 0
    /\ CallsOf("update", 1) = {}
    /\ \E j \in CallsOf("update", 2) : calls[j].err = NoError
    /\ \A m \in 1..Len(calls) : calls[m].op # "comment"

(***************************************************************************)
(* C14: when the listing call fails it is the only call of the invocation  *)
(* (no compare, update or comment call) and Handle has returned the        *)
(* listing's error.                                                        *)
(***************************************************************************)
C14_ListFailureFatal ==
    \A j \in 1..Len(calls) :
        (calls[j].op = "list" /\ calls[j].err # NoError)
        => /\ Len(calls) = 1
           /\ pc = "done"
           /\ ret = calls[j].err

\* the listing failed and Handle returned its error
C14_Witness ==
    /\ Len(calls) = 1
    /\ calls[1].op = "list"
    /\ calls[1].err = ErrList
    /\ pc = "done"
    /\ ret = ErrList

(***************************************************************************)
(* C15 (as stated, refuted by the code): for an event without an           *)
(* installation identity Handle returns an error without having asked for  *)
(* an installation client and without any call.                            *)
(***************************************************************************)
C15_NoInstallationNoClient ==
    (pushEvent.wellFormed /\ pushEvent.installation = 0)
    => /\ clientFor = {}
       /\ calls = <<>>
       /\ pc = "done"
       /\ ret \notin {NotReturned, NoError}

(***************************************************************************)
(* C16: when the installation client cannot be obtained, Handle has        *)
(* returned that error and has issued no list, compare, update or comment  *)
(* call, whatever the pushed ref.                                          *)
(***************************************************************************)
C16_ClientFailureFatal ==
    \A c \in clientFor :
        c.err # NoError
        => /\ calls = <<>>
           /\ pc = "done"
           /\ ret = c.err

\* a push to the default branch for which the client could not be obtained
C16_Witness ==
    /\ pushEvent.wellFormed
    /\ pushEvent.ref = "refs/heads/main"
    /\ pushEvent.defaultBranch = "main"
    /\ \E c \in clientFor : c.err = ErrClient
    /\ pc = "done"
    /\ ret = ErrClient
    /\ calls = <<>>

\* a call of this operation was issued for pull request n
HasCall(op, n) == \E j \in 1..Len(calls) : calls[j].op = op /\ calls[j].pr = n

(***************************************************************************)
(* C17 as stated: with no required labels configured, every pull request   *)
(* of the listing gets a compare call, whatever labels it carries.         *)
(***************************************************************************)
C17_Original ==
    (Len(labels) = 0 /\ pc = "done")
    => \A n \in 1..Len(pullRequests) : HasCall("compare", n)

(***************************************************************************)
(* C17 as amended: with no required labels configured the label filter     *)
(* skips no pull request: every pull request the loop has reached got a    *)
(* compare call whatever labels it carries (none included), and Handle     *)
(* returns with a pull request of the listing not compared only after a    *)
(* failed comment.                                                         *)
(***************************************************************************)
C17_NoFilterSkipsNone ==
    Len(labels) = 0 =>
        /\ \A n \in 1..Len(pullRequests) :
              (n < idx \/ (n = idx /\ pc \notin {"loop", "compare"}))
              => HasCall("compare", n)
        /\ (pc = "done" /\ \E n \in 1..Len(pullRequests) : ~HasCall("compare", n))
           => /\ calls[Len(calls)].op = "comment"
              /\ calls[Len(calls)].err # NoError
              /\ ret = calls[Len(calls)].err

\* no filter; pull request 1 carries no label, pull request 2 carries one;
\* both were compared and Handle returned
C17_Witness ==
    /\ Len(labels) = 0
    /\ Len(pullRequests) = 2
    /\ pullRequests[1].labels = <<>>
    /\ pullRequests[2].labels # <<>>
    /\ HasCall("compare", 1)
    /\ HasCall("compare", 2)
    /\ pc = "done"

(***************************************************************************)
(* C19: the calls of one invocation form one sequence: the listing call is *)
(* the first call and the only listing call; the calls go through the pull *)
(* requests in listing order, never back to an earlier one; for one pull   *)
(* request the compare call comes first, an update call comes directly     *)
(* after the compare call of the same pull request, and a comment call     *)
(* directly after the update call of the same pull request.  Every call of *)
(* the trace has its answer before the next one is issued, so no two calls *)
(* are in flight.                                                          *)
(***************************************************************************)
CallRank(op) ==
    CASE op = "list" -> 0 [] op = "compare" -> 1 [] op = "update" -> 2 [] OTHER -> 3

C19_SequentialTrace ==
    /\ Len(calls) >= 1 => calls[1].op = "list"
    /\ \A j \in 2..Len(calls) :
          /\ calls[j].op # "list"
          /\ calls[j].pr \in 1..Len(pullRequests)
          /\ \/ calls[j - 1].pr < calls[j].pr
             \/ /\ calls[j - 1].pr = calls[j].pr
                /\ CallRank(calls[j - 1].op) + 1 = CallRank(calls[j].op)
          /\ calls[j - 1].pr < calls[j].pr => calls[j].op = "compare"
    /\ pc \in {"compare", "update", "comment"} => idx \in 1..Len(pullRequests)

\* compare, update and comment for pull request 1, then compare for pull request 2
C19_Witness ==
    /\ Len(calls) >= 5
    /\ calls[1].op = "list"
    /\ calls[2].op = "compare" /\ calls[2].pr = 1
    /\ calls[3].op = "update" /\ calls[3].pr = 1
    /\ calls[4].op = "comment" /\ calls[4].pr = 1
    /\ calls[5].op = "compare" /\ calls[5].pr = 2

(***************************************************************************)
(* C18: in a second delivery of the same push event, a pull request whose  *)
(* update call succeeded in the first delivery, so that the platform now   *)
(* reports behindBy 0 for it, gets no update call and no comment call.     *)
(***************************************************************************)
C18_RedeliveryIdempotent ==
    delivery = 2 =>
        \A j \in 1..Len(calls) :
            calls[j].op \in {"update", "comment"} => calls[j].pr \notin caughtUp

\* pull request 1 was updated by the first delivery; the second delivery
\* compared it, left it alone and returned
C18_Witness ==
    /\ delivery = 2
    /\ 1 \in caughtUp
    /\ HasCall("compare", 1)
    /\ ~HasCall("update", 1)
    /\ ~HasCall("comment", 1)
    /\ pc = "done"

(***************************************************************************)
(* C21 (as stated, refuted by the code): after the first call that failed  *)
(* because the request context was cancelled, no compare, update or        *)
(* comment call is started for a pull request later in the listing.        *)
(***************************************************************************)
C21_StopsAfterCancellation ==
    \A j \in 1..Len(calls) :
        calls[j].err = ErrCanceled
        => \A m \in (j + 1)..Len(calls) : calls[m].pr <= calls[j].pr

(***************************************************************************)
(* C22: every comment call has an earlier update call of the same          *)
(* invocation for the same pull request, and that update call returned an  *)
(* error; and no pull request has two comment calls in one invocation.     *)
(***************************************************************************)
C22_CommentOnlyAfterFailedUpdate ==
    /\ \A j \in 1..Len(calls) :
          calls[j].op = "comment"
          => \E m \in 1..(j - 1) :
                /\ calls[m].op = "update"
                /\ calls[m].pr = calls[j].pr
                /\ calls[m].err # NoError
    /\ AtMostOnePerPullRequest("comment")

\* both pull requests were updated without success, the first with the
\* scheduled answer and the second with another error, and each was commented
\* once; pull request 2 being commented shows the first comment was posted
C22_Witness ==
    /\ pc = "done"
    /\ \E j \in CallsOf("update", 1) : calls[j].err = ScheduledMessage
    /\ \E j \in CallsOf("update", 2) : calls[j].err = ErrUpdate
    /\ HasCall("comment", 1)
    /\ HasCall("comment", 2)

\* the listing is asked for at most once
AtMostOneList ==
    \A j \in 1..Len(calls) : \A m \in (j + 1)..Len(calls) :
        ~(calls[j].op = "list" /\ calls[m].op = "list")

\* Handle has returned nil or an error
Returned == pc = "done" /\ ret # NotReturned

(***************************************************************************)
(* C23: every invocation in which each step that can be taken is taken and *)
(* each call returns ends with Handle returning nil or an error; and all   *)
(* along there is at most one list call and, for each listed pull request, *)
(* at most one compare, one update and one comment call, and no call for   *)
(* anything but a listed pull request.                                     *)
(***************************************************************************)
C23_RunsToCompletion ==
    /\ <>Returned
    /\ [](/\ AtMostOneList
          /\ AtMostOnePerPullRequest("compare")
          /\ AtMostOnePerPullRequest("update")
          /\ AtMostOnePerPullRequest("comment")
          /\ \A j \in 1..Len(calls) :
                calls[j].op # "list" => calls[j].pr \in 1..Len(pullRequests))

\* Handle returned nil after the longest run the listing allows: compare,
\* update and comment for each of the two pull requests
C23_Witness ==
    /\ Returned
    /\ ret = NoError
    /\ Len(pullRequests) = 2
    /\ Len(calls) = 7
    /\ HasCall("comment", 1)
    /\ HasCall("comment", 2)

====
